---------------------------- MODULE Spec2Model ----------------------------
(***************************************************************************)
(* The WhatsApp gateway of langgraph-whatsapp-agent as a state machine.    *)
(*                                                                         *)
(* One webhook call is followed from its arrival at TwilioMiddleware       *)
(* (server.py), through the route handler whatsapp_reply_twilio, into the  *)
(* background task process_message_async, which runs                       *)
(* WhatsAppAgentTwilio.process_message (channel.py), Agent.invoke          *)
(* (agent.py) and WhatsAppAgentTwilio.send_whatsapp_message (channel.py).  *)
(*                                                                         *)
(* Text is a sequence of tokens (a token is a character or a fixed piece   *)
(* of text such as "whatsapp:"), so that trimming, prefix tests and        *)
(* concatenation are computed and not assumed.                             *)
(***************************************************************************)
EXTENDS Integers, Sequences, FiniteSets, TLC

(***************************************************************************)
(* Bounds of the model.                                                    *)
(***************************************************************************)
\* Concurrent webhook calls of the specification Spec.
MaxCalls == 2
\* Attachments of one webhook in the specification SpecTurn.
MaxMedia == 2
\* Checkpoint values of one agent stream.
MaxChunks == 2

Calls == 1..MaxCalls

(***************************************************************************)
(* Text helpers (Python str methods on token sequences).                   *)
(***************************************************************************)
SetMin(S) == CHOOSE x \in S : \A y \in S : x <= y
SetMax(S) == CHOOSE x \in S : \A y \in S : x >= y

\* str.strip(): leading and trailing whitespace tokens removed.
strip(s) ==
    LET keep == {i \in 1..Len(s) : s[i] # " "}
    IN  IF keep = {} THEN <<>> ELSE SubSeq(s, SetMin(keep), SetMax(keep))

\* str.startswith(p)
startswith(s, p) == Len(s) >= Len(p) /\ SubSeq(s, 1, Len(p)) = p

\* The channel prefix of Twilio WhatsApp addresses.
WhatsAppPrefix == <<"whatsapp:">>

\* Number of occurrences of the prefix token in an address.
PrefixCount(s) == Cardinality({i \in 1..Len(s) : s[i] = "whatsapp:"})

(***************************************************************************)
(* Content types (media_utils.py).  A content type is a token sequence     *)
(* such as <<"audio/", "ogg", ";", "codecs=opus">>.                        *)
(***************************************************************************)
\* str.lower() on the tokens that occur in content types.
lower(tok) ==
    CASE tok = "IMAGE/" -> "image/"
      [] tok = "AUDIO/" -> "audio/"
      [] tok = "VIDEO/" -> "video/"
      [] tok = "PNG"    -> "png"
      [] tok = "OGG"    -> "ogg"
      [] OTHER          -> tok

\* content_type.split(';')[0]
BeforeSemicolon(ct) ==
    LET semi == {i \in 1..Len(ct) : ct[i] = ";"}
    IN  IF semi = {} THEN ct ELSE SubSeq(ct, 1, SetMin(semi) - 1)

clean_content_type(ct) ==
    IF ct = <<>> THEN <<>>
    ELSE LET head == strip(BeforeSemicolon(ct))
         IN  [i \in 1..Len(head) |-> lower(head[i])]

is_audio_content_type(ct) ==
    LET clean_type == clean_content_type(ct)
    IN  \/ startswith(clean_type, <<"audio/">>)
        \/ clean_type = <<"application/", "ogg">>

is_image_content_type(ct) ==
    startswith(clean_content_type(ct), <<"image/">>)

(***************************************************************************)
(* The webhook form (spec section 6).  A field that is absent reads as the *)
(* empty text, as form.get(name, "") does.                                 *)
(***************************************************************************)
\* The decimal text of a small count, and int() of such a text (-1: ValueError).
Decimal(n) ==
    CASE n = 0 -> "0" [] n = 1 -> "1" [] n = 2 -> "2" [] n = 3 -> "3"
      [] n = 4 -> "4" [] OTHER -> "5"

int(s) ==
    IF \E n \in 0..5 : Decimal(n) = s
    THEN CHOOSE n \in 0..5 : Decimal(n) = s
    ELSE -1

\* The provider-hosted URL of attachment i ("" when MediaUrl{i} is absent).
MediaUrlOf(i) ==
    CASE i = 0 -> "https://media/0" [] i = 1 -> "https://media/1"
      [] i = 2 -> "https://media/2" [] OTHER -> "https://media/3"

ImagePng == <<"image/", "png">>
ImageUpper == <<"IMAGE/", "PNG">>
AudioOgg == <<"audio/", "ogg", ";", "codecs=opus">>
VideoMp4 == <<"video/", "mp4">>

\* What one attachment slot of a form can hold.
MediaKinds ==
    { [present |-> TRUE,  ctype |-> ImagePng],
      [present |-> TRUE,  ctype |-> ImageUpper],
      [present |-> TRUE,  ctype |-> AudioOgg],
      [present |-> TRUE,  ctype |-> VideoMp4] }

MediaLists ==
    UNION { [1..n -> MediaKinds] : n \in 0..MaxMedia }

\* Slot i (0-based) of a media list as the form's MediaUrl{i}/MediaContentType{i}.
MediaFields(kinds) ==
    [i \in 1..Len(kinds) |->
        [url   |-> IF kinds[i].present THEN MediaUrlOf(i - 1) ELSE "",
         ctype |-> kinds[i].ctype]]

FromValues ==
    { <<>>, <<" ">>, <<"1">>, <<" ", "whatsapp:", "2", " ">> }

ToValues ==
    { <<>>, <<"9">>, <<"whatsapp:", "9", " ">> }

BodyValues ==
    { <<>>, <<" ">>, <<"a">>, <<" ", "a", "b", " ">> }

MkForm(from, to, body, kinds) ==
    [From     |-> from,
     To       |-> to,
     Body     |-> body,
     NumMedia |-> Decimal(Len(kinds)),
     Media    |-> MediaFields(kinds)]

\* A form whose NumMedia is not a number.
BadNumMediaForm ==
    [MkForm(<<"1">>, <<"9">>, <<"a">>, <<>>) EXCEPT !.NumMedia = "x"]

\* A form whose NumMedia counts an attachment that has no MediaUrl0.
NoUrlForm ==
    MkForm(<<"1">>, <<"9">>, <<"a">>, <<[present |-> FALSE, ctype |-> ImagePng]>>)

\* A form whose first attachment has no MediaUrl0 and whose second is a voice
\* note.
NoUrlThenAudioForm ==
    MkForm(<<"1">>, <<"9">>, <<"a">>,
           <<[present |-> FALSE, ctype |-> AudioOgg], [present |-> TRUE, ctype |-> AudioOgg]>>)

\* The forms of the single-call specification SpecTurn: every sender,
\* recipient and text without attachment, and every text with every list of
\* attachments.
Forms ==
    { MkForm(f, t, b, <<>>) : f \in FromValues, t \in ToValues, b \in BodyValues }
    \cup { MkForm(<<"1">>, <<"9">>, b, k) : b \in BodyValues, k \in MediaLists }
    \cup { BadNumMediaForm, NoUrlForm, NoUrlThenAudioForm }

\* The forms of the concurrent specification Spec.
\* (a voice note, a text of the same sender, and a picture with a caption of
\* another sender).
ConcForms ==
    { MkForm(<<" ", "whatsapp:", "2", " ">>, <<"9">>, <<>>,
             <<[present |-> TRUE, ctype |-> AudioOgg]>>),
      MkForm(<<"whatsapp:", "2">>, <<"9">>, <<"a">>, <<>>),
      MkForm(<<"1">>, <<"whatsapp:", "9", " ">>, <<"a">>,
             <<[present |-> TRUE, ctype |-> ImagePng]>>) }

NoForm == MkForm(<<>>, <<>>, <<>>, <<>>)

(***************************************************************************)
(* The request body.  It is kept as the fields by their first occurrence,  *)
(* and the pairs that follow them in the body under a key that occurred    *)
(* already (a form-encoded body may hold a key more than once).            *)
(***************************************************************************)
MkBody(fields, appended) == [fields |-> fields, appended |-> appended]

NoBody == MkBody(NoForm, <<>>)

\* server.py lines 29-30: parse_qs, then v[0] of every key: the first value.
flat_form_dict(body) == body.fields

RECURSIVE LastValues(_, _)
LastValues(fields, pairs) ==
    IF pairs = <<>> THEN fields
    ELSE LastValues([fields EXCEPT ![pairs[1].key] = pairs[1].value], Tail(pairs))

\* server.py line 59, form.get (lines 62, 70; channel.py 58-60, 85, 142):
\* request.form() gives Starlette's FormData, whose get returns the last
\* value of a key.
FormData(body) == LastValues(body.fields, body.appended)


(***************************************************************************)
(* Request signing (twilio RequestValidator, used by the middleware).  The *)
(* keyed hash is a tagged value: equal exactly when key, URL and fields    *)
(* are equal.                                                              *)
(***************************************************************************)
TWILIO_AUTH_TOKEN == "auth-token"

\* The URL the provider posts to and signs.
WebhookUrl == [origin |-> "https://gateway", path |-> "/whatsapp", query |-> ""]

\* server.py lines 32-34: scheme and host (forwarded ones first) and the
\* path of the request; the query string is not part of it.
ReconstructedUrl(url) == [origin |-> url.origin, path |-> url.path, query |-> ""]

compute_signature(key, url, params) ==
    [key |-> key, url |-> url, params |-> params]

\* Variant: the signature is compared without the key.
validate_without_key(url, params, signature) ==
    signature.url = url /\ signature.params = params

validate(url, params, signature) ==
    signature = compute_signature(TWILIO_AUTH_TOKEN, url, params)

\* The X-Twilio-Signature header of a request that carries form f: the
\* provider's signature, one computed with another key, or none.
NoSignature == compute_signature("", WebhookUrl, NoForm)

\* Requests that differ from what the provider signed: a second From after
\* the signed fields, a query string added to the URL, another host, and a
\* Body changed in place.
SignedForm == MkForm(<<"1">>, <<"9">>, <<"a">>, <<>>)

AlteredRequests ==
    { [body |-> MkBody(SignedForm, <<[key |-> "From", value |-> <<"whatsapp:", "2">>]>>),
       url  |-> WebhookUrl],
      [body |-> MkBody(SignedForm, <<>>),
       url  |-> [WebhookUrl EXCEPT !.query = "x=1"]],
      [body |-> MkBody(SignedForm, <<>>),
       url  |-> [WebhookUrl EXCEPT !.origin = "https://other"]],
      [body |-> MkBody([SignedForm EXCEPT !.Body = <<"a", "b">>], <<>>),
       url  |-> WebhookUrl] }

SignatureHeaders(f) ==
    { compute_signature(TWILIO_AUTH_TOKEN, WebhookUrl, f),
      compute_signature("other-token", WebhookUrl, f) }

(***************************************************************************)
(* Responses of the webhook endpoint.                                      *)
(***************************************************************************)
NoResponse == [status |-> 0, content |-> "", media_type |-> ""]

\* server.py line 39
InvalidSignatureResponse ==
    [status |-> 401, content |-> "Invalid Twilio signature", media_type |-> "text/plain"]

\* server.py lines 102-105: str(MessagingResponse()) with no message in it.
AckResponse ==
    [status |-> 200, content |-> "<Response />", media_type |-> "application/xml"]

(***************************************************************************)
(* The agent runtime's stream (langgraph_sdk client.runs.stream).          *)
(***************************************************************************)
\* A message the agent produced, and a message of the user, as the values of
\* the stream hold them.
Message(content) == [type |-> "ai", content |-> content]

HumanMessage(content) == [type |-> "human", content |-> content]

\* The checkpoint values a stream can yield: a value without a "messages"
\* key, one with no message, and values whose last message has content.
Chunks ==
    { [has_messages |-> FALSE, messages |-> <<>>],
      [has_messages |-> TRUE,  messages |-> <<>>],
      [has_messages |-> TRUE,  messages |-> <<Message(<<"r1">>)>>],
      [has_messages |-> TRUE,  messages |-> <<Message(<<"r1">>), Message(<<"r2">>)>>],
      [has_messages |-> TRUE,  messages |-> <<Message(<<"r2">>), Message(<<>>)>>] }

\* A run of the stream: the values it yields, and whether it then breaks
\* (connection error, decode error) instead of ending.  A stream that breaks
\* is taken after no value and after one value.
Streams ==
    { [chunks |-> ch, raises |-> FALSE] :
        ch \in UNION { [1..n -> Chunks] : n \in 0..MaxChunks } }
    \cup { [chunks |-> ch, raises |-> TRUE] :
        ch \in UNION { [1..n -> Chunks] : n \in 0..1 } }

\* The streams the single-call specification SpecTurn takes: those of at most
\* one value.
TurnStreams == { st \in Streams : Len(st.chunks) <= 1 }

(***************************************************************************)
(* State.                                                                  *)
(***************************************************************************)
VARIABLES
    pc,          \* per call: where the HTTP request is
    request,     \* per call: the form and the signature header received
    resp,        \* per call: the HTTP response returned to the provider
    bg,          \* per call: the background task process_message_async
    effects,     \* per call: the calls made to the outside world
    escaped,     \* per call: an exception left the background task
    config,      \* the environment's settings read at startup
    runs,        \* per call: the run it opened at the agent runtime
    loop         \* the call whose task holds the event loop in a blocking
                 \* network call (0: the event loop is free)

vars == <<pc, request, resp, bg, effects, escaped, config, runs, loop>>

NoTask ==
    [pc                |-> "none",
     body              |-> NoBody,
     form              |-> NoForm,
     sender            |-> <<>>,
     to_number         |-> <<>>,
     i                 |-> 0,
     content           |-> <<>>,
     images            |-> <<>>,
     audio_transcripts |-> <<>>,
     replied           |-> FALSE,
     reply_text        |-> <<>>,
     error             |-> ""]

\* fetch and transcribe hold attachment indexes (fetched: of the downloads
\* that succeeded), transcripts what
\* twilio_url_to_audio_transcript returned for an attachment (and whether
\* something raised in it), invoke the
\* requests to the agent runtime, streamed what the runtime's stream yielded,
\* send the messages given to the send API.
NoEffects ==
    [fetch |-> <<>>, fetched |-> <<>>, transcribe |-> <<>>, transcripts |-> <<>>,
     invoke |-> <<>>, streamed |-> <<>>, send |-> <<>>]

\* The settings read from the environment: the provider's account id and
\* secret (config.py lines 9-10), config.TWILIO_WHATSAPP_NUMBER (line 11) and
\* the OPENAI_API_KEY that speech_to_text reads (speech_to_text.py line 22).
\* A setting that is absent is empty.
FullConfig ==
    [TWILIO_ACCOUNT_SID     |-> "account-sid",
     TWILIO_AUTH_TOKEN      |-> TWILIO_AUTH_TOKEN,
     TWILIO_WHATSAPP_NUMBER |-> <<"5">>,
     OPENAI_API_KEY         |-> "sk"]

Configs ==
    { FullConfig,
      [FullConfig EXCEPT !.TWILIO_WHATSAPP_NUMBER = <<>>, !.OPENAI_API_KEY = ""],
      [FullConfig EXCEPT !.TWILIO_ACCOUNT_SID = ""],
      [FullConfig EXCEPT !.TWILIO_AUTH_TOKEN = ""] }

\* server.py line 15, channel.py lines 104-109: the module constructs the
\* channel when it is loaded, and the constructor raises when the provider's
\* secret or account id is not set; the process then serves no request.
WSP_AGENT(cfg) ==
    IF ~(cfg.TWILIO_AUTH_TOKEN # "" /\ cfg.TWILIO_ACCOUNT_SID # "")
    THEN "ValueError"
    ELSE "constructed"

InitCalls ==
    /\ pc = [c \in Calls |-> "idle"]
    /\ request = [c \in Calls |->
                    [form |-> NoForm, sig |-> NoSignature, body |-> NoBody,
                     url |-> WebhookUrl, receive |-> NoBody]]
    /\ resp = [c \in Calls |-> NoResponse]
    /\ bg = [c \in Calls |-> NoTask]
    /\ effects = [c \in Calls |-> NoEffects]
    /\ escaped = [c \in Calls |-> FALSE]
    /\ runs = [c \in Calls |-> "none"]
    /\ loop = 0

Init ==
    /\ InitCalls
    /\ config = FullConfig

InitTurn ==
    /\ InitCalls
    /\ config \in Configs

\* The handlers and tasks are coroutines of one event loop (uvicorn.run,
\* server.py line 118; an async task given to add_task is awaited on it): one
\* of them runs when no other holds the loop in a blocking call.
EventLoopFree == loop = 0

(***************************************************************************)
(* The provider posts a webhook.                                           *)
(***************************************************************************)
\* A request arrives with a body, a URL and a signature header; form is its
\* form content, and receive what its receive channel delivers.
Arrive(c, body, url, s) ==
    /\ WSP_AGENT(config) = "constructed"
    /\ pc[c] = "idle"
    /\ pc' = [pc EXCEPT ![c] = "dispatch"]
    /\ request' = [request EXCEPT ![c] =
                      [form |-> FormData(body), sig |-> s, body |-> body,
                       url |-> url, receive |-> body]]
    /\ UNCHANGED <<resp, bg, effects, escaped, config, runs, loop>>

\* The provider posts form f with signature header s.
Receive(c, f, s) == Arrive(c, MkBody(f, <<>>), WebhookUrl, s)

\* A request that carries the provider's signature of SignedForm at
\* WebhookUrl, and was altered after signing.
ReceiveAltered(c, r) ==
    Arrive(c, r.body, r.url, compute_signature(TWILIO_AUTH_TOKEN, WebhookUrl, SignedForm))

(***************************************************************************)
(* TwilioMiddleware.dispatch (server.py lines 23-48).                      *)
(***************************************************************************)
\* server.py lines 41-46: the receive channel is replaced by one that
\* delivers the body that was read.
replay(body) == body

dispatch(c) ==
    /\ EventLoopFree
    /\ pc[c] = "dispatch"
    /\ LET body == request[c].receive
       IN  IF ~validate(ReconstructedUrl(request[c].url), flat_form_dict(body),
                        request[c].sig)
           THEN /\ resp' = [resp EXCEPT ![c] = InvalidSignatureResponse]
                /\ pc' = [pc EXCEPT ![c] = "closed"]
                /\ request' = [request EXCEPT ![c].receive = NoBody]
           ELSE /\ pc' = [pc EXCEPT ![c] = "route"]
                /\ request' = [request EXCEPT ![c].receive = replay(body)]
                /\ UNCHANGED resp
    /\ UNCHANGED <<bg, effects, escaped, config, runs, loop>>

(***************************************************************************)
(* whatsapp_reply_twilio (server.py lines 54-112): the handler reads the   *)
(* form, captures the sender, schedules process_message_async (line 99)    *)
(* and returns the empty acknowledgment (line 105).                        *)
(***************************************************************************)
add_task(c) ==
    /\ EventLoopFree
    /\ pc[c] = "route"
    /\ pc' = [pc EXCEPT ![c] = "scheduled"]
    /\ LET body == request[c].receive
           form == FormData(body)
       IN  bg' = [bg EXCEPT ![c] =
                    [NoTask EXCEPT !.pc = "queued",
                                   !.body = body,
                                   !.form = form,
                                   !.sender = strip(form.From)]]
    /\ UNCHANGED <<request, resp, effects, escaped, config, runs, loop>>

whatsapp_reply_twilio(c) ==
    /\ EventLoopFree
    /\ pc[c] = "scheduled"
    /\ pc' = [pc EXCEPT ![c] = "closed"]
    /\ resp' = [resp EXCEPT ![c] = AckResponse]
    /\ UNCHANGED <<request, bg, effects, escaped, config, runs, loop>>


(***************************************************************************)
(* process_message_async (server.py lines 64-96), the background task.     *)
(***************************************************************************)
\* Variant: the task is run where it is scheduled, not after the response.
TaskRunsWhenScheduled(c) == TRUE

\* Variant: a task that was scheduled is never run.
TaskDropped(c) == FALSE

\* BackgroundTasks.add_task (server.py line 99): the framework runs the
\* scheduled task once the handler's response has been returned.
TaskMayRun(c) == resp[c] # NoResponse

\* Variant: the except clause names HTTPException only.
CaughtHTTPExceptionOnly(exc) == exc = "HTTPException"

\* except Exception (server.py lines 94-96) catches whatever the task raises.
Caught(exc) == TRUE

\* Variant: the except clause schedules the task again.
RaiseAndRequeue(b, exc) == [b EXCEPT !.pc = "queued", !.error = exc]

\* The task ends in the except clause with exception exc.
Raise(b, exc) == [b EXCEPT !.pc = "failed", !.error = exc]

\* Lines 66-80: the task starts, reads To and wraps the captured form.
process_message_async(c) ==
    /\ EventLoopFree
    /\ bg[c].pc = "queued"
    /\ TaskMayRun(c)
    /\ bg' = [bg EXCEPT ![c] =
                [@ EXCEPT !.pc = "process",
                          !.to_number = strip(bg[c].form.To)]]
    /\ UNCHANGED <<pc, request, resp, effects, escaped, config, runs, loop>>

(***************************************************************************)
(* WhatsAppAgentTwilio.process_message (channel.py lines 138-161), up to   *)
(* the media loop: the From check (lines 142-144), the trimmed Body        *)
(* (line 85) and int(NumMedia) (line 57).                                  *)
(***************************************************************************)
ProcessStart(b, form) ==
    IF strip(form.From) = <<>>
    THEN Raise(b, "HTTPException")
    ELSE IF int(form.NumMedia) < 0
         THEN Raise(b, "ValueError")
         ELSE [b EXCEPT !.pc = "media", !.i = 0, !.content = strip(form.Body)]

process_message(c) ==
    /\ EventLoopFree
    /\ bg[c].pc = "process"
    /\ LET b == ProcessStart(bg[c], bg[c].form)
       IN  /\ bg' = [bg EXCEPT ![c] = b]
           /\ escaped' = [escaped EXCEPT ![c] = @ \/ (b.pc = "failed" /\ ~Caught(b.error))]
    /\ UNCHANGED <<pc, request, resp, effects, config, runs, loop>>

(***************************************************************************)
(* Media (twilio_utils.py, speech_to_text.py, channel.py lines 19-76).     *)
(***************************************************************************)
\* The bytes the provider serves at a URL.
MediaBytes(url) == <<"bytes-of", url>>

\* base64.b64encode(media_bytes).decode()
b64encode(bytes) == <<"b64">> \o bytes

\* twilio_utils.bytes_to_data_uri
bytes_to_data_uri(media_bytes, content_type) ==
    <<"data:">> \o content_type \o <<";base64,">> \o b64encode(media_bytes)

\* Variant: the type is replaced by the default image type.
twilio_url_to_data_uri_default_type(url, content_type) ==
    bytes_to_data_uri(MediaBytes(url), <<"image/", "jpeg">>)

\* twilio_utils.twilio_url_to_data_uri with the content type given (the
\* detected type and the image/jpeg coercion apply only when it is not).
twilio_url_to_data_uri(url, content_type) ==
    bytes_to_data_uri(MediaBytes(url), content_type)

AudioFailed == <<"[Audio transcription failed]">>

\* The result of transcribing the audio served at a URL.
TranscriptOf(url) == <<"transcript-of", url>>

\* What the outside world does for one attachment: whether the download
\* succeeds, and for audio whether the bytes are long enough (speech_to_text.py
\* line 35) and what the transcription backend answers.
MediaOutcomes ==
    { [download |-> FALSE, size_ok |-> FALSE, stt |-> "none"],
      [download |-> TRUE,  size_ok |-> FALSE, stt |-> "none"],
      [download |-> TRUE,  size_ok |-> TRUE,  stt |-> "error"],
      [download |-> TRUE,  size_ok |-> TRUE,  stt |-> "empty"],
      [download |-> TRUE,  size_ok |-> TRUE,  stt |-> "text"] }

\* The outcomes the concurrent specification takes.
ConcMediaOutcomes ==
    { [download |-> FALSE, size_ok |-> FALSE, stt |-> "none"],
      [download |-> TRUE,  size_ok |-> TRUE,  stt |-> "text"] }

\* speech_to_text reaches the transcription backend when the key is set
\* (speech_to_text.py lines 22-26) and the bytes pass the size checks (32-36).
CallsBackend(key, o) == o.download /\ key # "" /\ o.size_ok

\* The download or speech_to_text raises (twilio_utils.py lines 54-56,
\* speech_to_text.py lines 26, 33, 36, 81).
AudioRaises(key, o) == ~CallsBackend(key, o) \/ o.stt = "error"

\* channel.twilio_url_to_audio_transcript: the transcript, the sentinel when
\* anything raised, <<>> for None (an empty transcript).
twilio_url_to_audio_transcript(url, key, o) ==
    IF AudioRaises(key, o) THEN AudioFailed
    ELSE IF o.stt = "text" THEN TranscriptOf(url)
    ELSE <<>>

\* Attachment i (0-based) of a form: MediaUrl{i} and MediaContentType{i}.
MediaItem(form, i) ==
    IF i + 1 <= Len(form.Media) THEN form.Media[i + 1]
    ELSE [url |-> "", ctype |-> <<>>]

IsImageItem(item) == item.url # "" /\ is_image_content_type(item.ctype)

\* Variant: every attachment that is not an image is taken as audio.
IsAudioItem_of_any_type(item) == ~IsImageItem(item) /\ item.url # ""

IsAudioItem(item) == ~IsImageItem(item) /\ item.url # "" /\ is_audio_content_type(item.ctype)

\* Variant: a failed download is tried again.
RetryIndex(i, downloaded) == IF downloaded THEN i + 1 ELSE i

\* The index the loop of process_twilio_media goes to after attachment i.
NextIndex(i, downloaded) == i + 1

\* The loop of process_twilio_media (channel.py line 58) has an attachment left.
MediaLeft(c) == bg[c].i < int(bg[c].form.NumMedia)

\* The attachment the loop of process_twilio_media is at is downloaded.
Downloads(c) ==
    LET item == MediaItem(bg[c].form, bg[c].i)
    IN  IsImageItem(item) \/ IsAudioItem(item)

\* download_twilio_media (twilio_utils.py lines 42-46), called in the task's
\* coroutine (channel.py lines 25, 66): requests.get is a blocking call, and
\* the event loop runs nothing else until it returns or raises.
requests_get(c) ==
    /\ EventLoopFree
    /\ bg[c].pc = "media"
    /\ MediaLeft(c)
    /\ Downloads(c)
    /\ loop' = c
    /\ UNCHANGED <<pc, request, resp, bg, effects, escaped, config, runs>>

\* One iteration of the loop of process_twilio_media (channel.py lines 58-74),
\* from the return of the download on.
process_twilio_media(c, o) ==
    /\ bg[c].pc = "media"
    /\ MediaLeft(c)
    /\ loop = (IF Downloads(c) THEN c ELSE 0)
    /\ loop' = 0
    /\ LET i    == bg[c].i
           item == MediaItem(bg[c].form, i)
       IN  IF IsImageItem(item)
           THEN /\ effects' = [effects EXCEPT
                          ![c].fetch = Append(@, i),
                          ![c].fetched = IF o.download THEN Append(@, i) ELSE @]
                /\ bg' = [bg EXCEPT ![c] =
                     [@ EXCEPT
                        !.i = NextIndex(i, o.download),
                        !.images =
                           IF o.download
                           THEN Append(@, [url |-> item.url,
                                           data_uri |-> twilio_url_to_data_uri(item.url, item.ctype)])
                           ELSE @]]
           ELSE IF IsAudioItem(item)
           THEN LET transcript ==
                        twilio_url_to_audio_transcript(item.url, config.OPENAI_API_KEY, o)
                IN  /\ effects' = [effects EXCEPT
                          ![c].fetch = Append(@, i),
                          ![c].fetched = IF o.download THEN Append(@, i) ELSE @,
                          ![c].transcribe =
                             IF CallsBackend(config.OPENAI_API_KEY, o) THEN Append(@, i) ELSE @,
                          ![c].transcripts =
                             Append(@, [i      |-> i,
                                        text   |-> transcript,
                                        raised |-> AudioRaises(config.OPENAI_API_KEY, o)])]
                    /\ bg' = [bg EXCEPT ![c] =
                         [@ EXCEPT
                            !.i = NextIndex(i, o.download),
                            !.audio_transcripts =
                               IF transcript # <<>> THEN Append(@, transcript) ELSE @]]
           ELSE /\ bg' = [bg EXCEPT ![c].i = NextIndex(i, TRUE)]
                /\ UNCHANGED effects
    /\ UNCHANGED <<pc, request, resp, escaped, config, runs>>

(***************************************************************************)
(* Agent.invoke (agent.py lines 22-87).                                    *)
(***************************************************************************)
\* uuid.uuid5(uuid.NAMESPACE_DNS, id): a name-based identifier, a tagged
\* value that is equal exactly when the names are equal.
uuid5(namespace, name) == [uuid5 |-> namespace, name |-> name]

\* The parameters of Agent.invoke (agent.py line 22).
InvokeParameters == {"id", "user_message", "media"}

\* The keys of input_data (channel.py lines 150-158).
InputDataKeys(images) ==
    {"id", "user_message"} \cup (IF images # <<>> THEN {"images"} ELSE {})

\* self.agent.invoke(**input_data) binds every key to a parameter, and
\* raises TypeError on a key that is none.
KeywordsAccepted(keys) == keys \subseteq InvokeParameters

\* agent.py lines 47-58: one block per media item that has a url and a
\* content_type; media is None (<<>>) when the caller passes none.
MediaBlocks(media) ==
    [k \in 1..Len(media) |->
        [type   |-> media[k].content_type[1],
         source |-> [type |-> "url", url |-> media[k].url]]]

TextBlock(text) == [type |-> "text", text |-> text]

\* agent.py lines 38-58
message_content(user_message, media) ==
    (IF user_message # <<>> THEN <<TextBlock(user_message)>> ELSE <<>>)
        \o MediaBlocks(media)

\* Variant: the thread id is not derived from the sender.
request_payload_fresh_thread(id, user_message, media) ==
    [thread_id          |-> uuid5("NAMESPACE_DNS", <<"uuid4">>),
     content            |-> IF message_content(user_message, media) # <<>>
                            THEN message_content(user_message, media)
                            ELSE user_message,
     multitask_strategy |-> "interrupt",
     if_not_exists      |-> "create",
     stream_mode        |-> "values"]

\* Variant: the run is opened with the strategy that refuses a second run.
request_payload_rejecting(id, user_message, media) ==
    [thread_id          |-> uuid5("NAMESPACE_DNS", id),
     content            |-> IF message_content(user_message, media) # <<>>
                            THEN message_content(user_message, media)
                            ELSE user_message,
     multitask_strategy |-> "reject",
     if_not_exists      |-> "create",
     stream_mode        |-> "values"]

\* Variant: the thread id is derived from the sender and the message.
request_payload_thread_of_message(id, user_message, media) ==
    [thread_id          |-> uuid5("NAMESPACE_DNS", id \o user_message),
     content            |-> IF message_content(user_message, media) # <<>>
                            THEN message_content(user_message, media)
                            ELSE user_message,
     multitask_strategy |-> "interrupt",
     if_not_exists      |-> "create",
     stream_mode        |-> "values"]

\* agent.py lines 60-78
request_payload(id, user_message, media) ==
    [thread_id          |-> uuid5("NAMESPACE_DNS", id),
     content            |-> IF message_content(user_message, media) # <<>>
                            THEN message_content(user_message, media)
                            ELSE user_message,
     multitask_strategy |-> "interrupt",
     if_not_exists      |-> "create",
     stream_mode        |-> "values"]

RECURSIVE Join(_, _)
\* sep.join(parts)
Join(parts, sep) ==
    IF parts = <<>> THEN <<>>
    ELSE IF Len(parts) = 1 THEN parts[1]
    ELSE parts[1] \o sep \o Join(Tail(parts), sep)

\* Variant: the transcripts are joined by a single line break.
full_content_single_break(content, audio_transcripts) ==
    IF audio_transcripts # <<>>
    THEN Join(audio_transcripts, <<"\n">>)
            \o (IF content # <<>> THEN <<"\n\n", "Text message: ">> \o content ELSE <<>>)
    ELSE content

\* Variant: the text is labelled also when there is no transcript.
full_content_always_labelled(content, audio_transcripts) ==
    Join(audio_transcripts, <<"\n\n">>)
        \o (IF content # <<>> THEN <<"\n\n", "Text message: ">> \o content ELSE <<>>)

\* prepare_message_content (channel.py lines 87-96): the transcripts, then the
\* labelled text.
full_content(content, audio_transcripts) ==
    IF audio_transcripts # <<>>
    THEN Join(audio_transcripts, <<"\n\n">>)
            \o (IF content # <<>> THEN <<"\n\n", "Text message: ">> \o content ELSE <<>>)
    ELSE content

\* The thread of the run that call d opened.
ThreadOf(d) == effects[d].invoke[Len(effects[d].invoke)].thread_id

\* The agent runtime starts the run of call c.  Its multitask contract for
\* the strategy "interrupt": a run that is active on the same thread is
\* interrupted and the new run starts.
OpenRun(c, payload) ==
    [d \in Calls |->
        IF d = c THEN "active"
        ELSE IF /\ runs[d] = "active"
                /\ ThreadOf(d) = payload.thread_id
                /\ payload.multitask_strategy = "interrupt"
             THEN "interrupted"
             ELSE runs[d]]

\* The stream of the run of call c has ended for the gateway.
CloseRun(c) == [runs EXCEPT ![c] = "ended"]

\* The end of the media loop, the input_data of process_message (channel.py
\* lines 146-160) and the request that Agent.invoke opens (agent.py 34-83).
invoke(c) ==
    /\ EventLoopFree
    /\ bg[c].pc = "media"
    /\ ~MediaLeft(c)
    /\ LET user_message == full_content(bg[c].content, bg[c].audio_transcripts)
           b == [bg[c] EXCEPT !.content = user_message]
       IN  IF ~KeywordsAccepted(InputDataKeys(bg[c].images))
           THEN /\ bg' = [bg EXCEPT ![c] = Raise(b, "TypeError")]
                /\ escaped' = [escaped EXCEPT ![c] = @ \/ ~Caught("TypeError")]
                /\ UNCHANGED <<effects, runs>>
           ELSE /\ bg' = [bg EXCEPT ![c] = [b EXCEPT !.pc = "stream"]]
                /\ effects' = [effects EXCEPT ![c].invoke =
                      Append(@, request_payload(bg[c].sender, user_message, <<>>))]
                /\ runs' = OpenRun(c, request_payload(bg[c].sender, user_message, <<>>))
                /\ UNCHANGED escaped
    /\ UNCHANGED <<pc, request, resp, config, loop>>

\* The value a run holds before the agent has produced a message: the
\* messages of the thread end with the user's message of this turn.  A
\* stream can end on it, as when the run is interrupted.
InputCheckpoint(c) ==
    [has_messages |-> TRUE, messages |-> <<HumanMessage(bg[c].content)>>]

\* The input checkpoint is taken as the end of the stream of a run that was
\* interrupted.
InputStreams(c) ==
    IF runs[c] = "interrupted"
    THEN { [chunks |-> <<InputCheckpoint(c)>>, raises |-> FALSE] }
    ELSE {}

\* The reply of the agent on the thread of a sender (it differs from one
\* thread to another).
ReplyOn(sender) == IF sender = <<"1">> THEN <<"r2">> ELSE <<"r1">>

\* The streams the concurrent specification takes for the run of call c: one
\* that breaks, one that ends on the reply of the agent and, for a run that
\* was interrupted, one that ends on the input checkpoint.
ConcStreams(c) ==
    { [chunks |-> <<>>, raises |-> TRUE],
      [chunks |-> <<[has_messages |-> TRUE,
                     messages |-> <<Message(ReplyOn(bg[c].sender))>>]>>,
       raises |-> FALSE] }
    \cup InputStreams(c)

\* Variant: the reply is taken from the first value of the stream.
StreamResultOfFirstValue(st) ==
    IF st.raises THEN [error |-> "StreamError", text |-> <<>>]
    ELSE IF st.chunks = <<>> THEN [error |-> "UnboundLocalError", text |-> <<>>]
    ELSE LET final_response == st.chunks[1]
         IN  IF ~final_response.has_messages
             THEN [error |-> "KeyError", text |-> <<>>]
             ELSE IF final_response.messages = <<>>
             THEN [error |-> "IndexError", text |-> <<>>]
             ELSE [error |-> "",
                   text  |-> final_response.messages[Len(final_response.messages)].content]

\* agent.py lines 80-87: the stream is consumed, the last value kept, and the
\* content of its last message returned; anything that raises is raised again.
StreamResult(st) ==
    IF st.raises THEN [error |-> "StreamError", text |-> <<>>]
    ELSE IF st.chunks = <<>> THEN [error |-> "UnboundLocalError", text |-> <<>>]
    ELSE LET final_response == st.chunks[Len(st.chunks)]
         IN  IF ~final_response.has_messages
             THEN [error |-> "KeyError", text |-> <<>>]
             ELSE IF final_response.messages = <<>>
             THEN [error |-> "IndexError", text |-> <<>>]
             ELSE [error |-> "",
                   text  |-> final_response.messages[Len(final_response.messages)].content]

\* Variant: the error is sent to the sender as the reply.
SendErrorText(b, exc) ==
    [b EXCEPT !.pc = "send", !.reply_text = <<"Sorry, something went wrong">>, !.error = exc]

\* What process_message_async does when Agent.invoke raised (server.py
\* lines 83, 94-96): the send is skipped.
AfterInvokeError(b, exc) == Raise(b, exc)

stream(c, st) ==
    /\ EventLoopFree
    /\ bg[c].pc = "stream"
    /\   LET r == StreamResult(st)
             b == IF r.error = ""
                  THEN [bg[c] EXCEPT !.pc = "send", !.replied = TRUE, !.reply_text = r.text]
                  ELSE AfterInvokeError(bg[c], r.error)
         IN  /\ bg' = [bg EXCEPT ![c] = b]
             /\ escaped' = [escaped EXCEPT ![c] = @ \/ (b.pc = "failed" /\ ~Caught(b.error))]
    /\ effects' = [effects EXCEPT ![c].streamed = Append(@, st)]
    /\ runs' = CloseRun(c)
    /\ UNCHANGED <<pc, request, resp, config, loop>>

(***************************************************************************)
(* WhatsAppAgentTwilio.send_whatsapp_message (channel.py lines 163-190),   *)
(* called from process_message_async (server.py lines 86-92).              *)
(***************************************************************************)
\* Variant: the prefix is added without the test.
always_prefix(number) == WhatsAppPrefix \o number

\* channel.py lines 173-176: the prefix is added when the number lacks it.
with_whatsapp_prefix(number) ==
    IF ~startswith(number, WhatsAppPrefix) THEN WhatsAppPrefix \o number ELSE number

\* channel.py line 167: from_number or self.twilio_whatsapp_number
whatsapp_from(from_number, configured) ==
    IF from_number # <<>> THEN from_number ELSE configured

\* Variant: the sender is kept in one place for all calls (the latest task's).
SendArgumentsSharedSender(b) ==
    [to_number   |-> bg[SetMax({d \in Calls : bg[d].pc # "none"})].sender,
     message     |-> b.reply_text,
     from_number |-> b.to_number]

\* The arguments of process_message_async's call (server.py lines 86-90).
SendArguments(b) == [to_number |-> b.sender, message |-> b.reply_text, from_number |-> b.to_number]

\* The from identity of the send of call c (channel.py line 167).
SenderId(c) ==
    whatsapp_from(SendArguments(bg[c]).from_number, config.TWILIO_WHATSAPP_NUMBER)

\* twilio_client.messages.create (channel.py lines 179-183), called in the
\* task's coroutine: a blocking call, and the event loop runs nothing else
\* until it returns or raises.
messages_create(c) ==
    /\ EventLoopFree
    /\ bg[c].pc = "send"
    /\ SenderId(c) # <<>>
    /\ loop' = c
    /\ UNCHANGED <<pc, request, resp, bg, effects, escaped, config, runs>>

send_whatsapp_message(c, delivered) ==
    /\ bg[c].pc = "send"
    /\ loop = (IF SenderId(c) # <<>> THEN c ELSE 0)
    /\ loop' = 0
    /\ LET args == SendArguments(bg[c])
           sender_id == SenderId(c)
       IN  IF sender_id = <<>>
           THEN /\ bg' = [bg EXCEPT ![c] = Raise(@, "ValueError")]
                /\ escaped' = [escaped EXCEPT ![c] = @ \/ ~Caught("ValueError")]
                /\ UNCHANGED effects
           ELSE   /\ effects' = [effects EXCEPT ![c].send =
                        Append(@, [to    |-> with_whatsapp_prefix(args.to_number),
                                   from_ |-> with_whatsapp_prefix(sender_id),
                                   body  |-> args.message,
                                   ok    |-> delivered])]
                  /\ bg' = [bg EXCEPT ![c] =
                        IF delivered THEN [@ EXCEPT !.pc = "done"]
                        ELSE Raise(@, "TwilioRestException")]
                  /\ escaped' = [escaped EXCEPT ![c] =
                        @ \/ (~delivered /\ ~Caught("TwilioRestException"))]
    /\ UNCHANGED <<pc, request, resp, config, runs>>

(***************************************************************************)
(* Specifications.                                                         *)
(***************************************************************************)
\* The steps of one call that take nothing from the outside world.
Step(c) ==
    \/ dispatch(c)
    \/ add_task(c)
    \/ whatsapp_reply_twilio(c)
    \/ process_message_async(c)
    \/ process_message(c)
    \/ invoke(c)

\* Concurrent webhook calls.
Next ==
    \/ \E c \in Calls : \E f \in ConcForms : \E s \in SignatureHeaders(f) : Receive(c, f, s)
    \/ \E c \in Calls : Step(c)
    \/ \E c \in Calls : requests_get(c)
    \/ \E c \in Calls : \E o \in ConcMediaOutcomes : process_twilio_media(c, o)
    \/ \E c \in Calls : \E st \in ConcStreams(c) : stream(c, st)
    \/ \E c \in Calls : messages_create(c)
    \/ \E c \in Calls : \E delivered \in BOOLEAN : send_whatsapp_message(c, delivered)

Spec == Init /\ [][Next]_vars

\* The forms and the streams of the specification SpecLive: the first call
\* brings a voice note with a text, the calls beside it a text of the same
\* sender; a stream breaks or gives a reply.
LiveForms(c) ==
    IF c = 1
    THEN { MkForm(<<"whatsapp:", "2">>, <<"9">>, <<"a">>,
                  <<[present |-> TRUE, ctype |-> AudioOgg]>>) }
    ELSE { MkForm(<<"whatsapp:", "2">>, <<"9">>, <<"a">>, <<>>) }

LiveStreams ==
    { [chunks |-> <<>>, raises |-> TRUE],
      [chunks |-> <<[has_messages |-> TRUE, messages |-> <<Message(<<"r1">>)>>]>>,
       raises |-> FALSE] }

\* Every step of call c after its arrival.
CallStep(c) ==
    \/ Step(c)
    \/ requests_get(c)
    \/ \E o \in ConcMediaOutcomes : process_twilio_media(c, o)
    \/ \E st \in LiveStreams : stream(c, st)
    \/ messages_create(c)
    \/ \E delivered \in BOOLEAN : send_whatsapp_message(c, delivered)

NextLive ==
    \/ \E c \in Calls : \E f \in LiveForms(c) : \E s \in SignatureHeaders(f) : Receive(c, f, s)
    \/ \E c \in Calls : CallStep(c)

\* The event loop runs a coroutine that is ready (the handler after each
\* await, the task that add_task scheduled), and every call to the outside
\* returns or raises: a call that can take a step takes one.
Fairness == \A c \in Calls : WF_vars(CallStep(c))

SpecLive == Init /\ [][NextLive]_vars /\ Fairness

\* One webhook call, over every form and every outcome.
NextTurn ==
    \/ \E f \in Forms : \E s \in SignatureHeaders(f) : Receive(1, f, s)
    \/ \E r \in AlteredRequests : ReceiveAltered(1, r)
    \/ Step(1)
    \/ requests_get(1)
    \/ \E o \in MediaOutcomes : process_twilio_media(1, o)
    \/ \E st \in TurnStreams : stream(1, st)
    \/ messages_create(1)
    \/ \E delivered \in BOOLEAN : send_whatsapp_message(1, delivered)

SpecTurn == InitTurn /\ [][NextTurn]_vars

\* One text message to each recipient, over every stream of the agent runtime.
StreamForms == { MkForm(<<"1">>, t, <<"a">>, <<>>) : t \in ToValues }

NextStream ==
    \/ \E f \in StreamForms :
          Receive(1, f, compute_signature(TWILIO_AUTH_TOKEN, WebhookUrl, f))
    \/ Step(1)
    \/ \E st \in Streams : stream(1, st)
    \/ messages_create(1)
    \/ \E delivered \in BOOLEAN : send_whatsapp_message(1, delivered)

SpecStream == Init /\ [][NextStream]_vars


(***************************************************************************)
(* Vocabulary of the properties.                                           *)
(***************************************************************************)
\* The request of call c carries the provider's signature of its own form.
ProviderSigned(c) ==
    request[c].sig = compute_signature(TWILIO_AUTH_TOKEN, ReconstructedUrl(request[c].url),
                                       flat_form_dict(request[c].body))

\* The request of call c has arrived.
Arrived(c) == pc[c] # "idle"

\* The background task of call c has started (it runs or has ended).
TaskStarted(c) == bg[c].pc \in {"process", "media", "stream", "send", "done", "failed"}

\* The background task of call c has gone past the point where it calls the agent.
PastInvoke(c) ==
    \/ bg[c].pc \in {"stream", "send", "done"}
    \/ bg[c].pc = "failed" /\ bg[c].error \notin {"HTTPException"}
                           /\ bg[c].i >= int(request[c].form.NumMedia)
                           /\ int(request[c].form.NumMedia) >= 0

\* The state of call c in the state machine of spec section 4.8.
CallState(c) ==
    CASE bg[c].pc = "done"   -> "Delivered"
      [] bg[c].pc = "failed" -> "Failed"
      [] bg[c].pc \in {"process", "media", "stream", "send"} -> "Processing"
      [] resp[c] = AckResponse -> "Acknowledged"
      [] resp[c] # NoResponse  -> "Rejected"
      [] pc[c] \in {"route", "scheduled"} -> "Validated"
      [] pc[c] = "dispatch" -> "Received"
      [] OTHER -> "Idle"

\* The exceptions with which Agent.invoke fails.
InvokeErrors == {"StreamError", "UnboundLocalError", "KeyError", "IndexError"}

\* Call d has a step left to take, and some step of it can be taken (the
\* download of an attachment, or the iteration of the media loop over it, can
\* be taken whenever an attachment is left and the event loop is free or held
\* by the call itself).
Pending(d) ==
    \/ pc[d] \in {"dispatch", "route", "scheduled"}
    \/ bg[d].pc \in {"queued", "process", "media", "stream", "send"}

CanStep(d) ==
    \/ pc[d] = "dispatch" /\ ENABLED dispatch(d)
    \/ pc[d] = "route" /\ ENABLED add_task(d)
    \/ pc[d] = "scheduled" /\ ENABLED whatsapp_reply_twilio(d)
    \/ bg[d].pc = "queued" /\ ENABLED process_message_async(d)
    \/ bg[d].pc = "process" /\ ENABLED process_message(d)
    \/ bg[d].pc = "media" /\ ((MediaLeft(d) /\ loop \in {0, d}) \/ ENABLED invoke(d))
    \/ bg[d].pc = "stream" /\ ENABLED (\E st \in ConcStreams(d) : stream(d, st))
    \/ bg[d].pc = "send" /\ ENABLED (\/ messages_create(d)
                                      \/ \E delivered \in BOOLEAN : send_whatsapp_message(d, delivered))

\* Everything the program holds for call c.
CallVars(c) == <<pc[c], request[c], resp[c], bg[c], effects[c], escaped[c]>>

\* How often attachment i was fetched for call c.
FetchCount(c, i) ==
    Cardinality({k \in 1..Len(effects[c].fetch) : effects[c].fetch[k] = i})

(***************************************************************************)
(* C1.  The acknowledgment is returned before the background processing of *)
(* the same request starts: whenever the task of a call has started, or a  *)
(* media fetch, a transcription, an agent invocation or an outbound send   *)
(* has been made for it, its response is the empty acknowledgment.         *)
(***************************************************************************)
C1_AckBeforeProcessing ==
    \A c \in Calls :
        (TaskStarted(c) \/ effects[c] # NoEffects) => resp[c] = AckResponse

C1_Witness ==
    \E c \in Calls :
        /\ resp[c] = AckResponse
        /\ effects[c].fetch # <<>> /\ effects[c].transcribe # <<>>
        /\ effects[c].invoke # <<>> /\ effects[c].send # <<>>

(***************************************************************************)
(* C2.  A request whose signature does not validate never reaches the      *)
(* route handler: it is answered 401 by the middleware, no acknowledgment  *)
(* is produced, no task is scheduled and no outside call is made for it.   *)
(***************************************************************************)
C2_InvalidSignatureRejected ==
    \A c \in Calls :
        (Arrived(c) /\ ~ProviderSigned(c)) =>
            /\ pc[c] \in {"dispatch", "closed"}
            /\ pc[c] = "closed" => resp[c] = InvalidSignatureResponse
            /\ pc[c] = "dispatch" => resp[c] = NoResponse
            /\ bg[c] = NoTask
            /\ effects[c] = NoEffects

C2_Witness ==
    \E c \in Calls :
        /\ ~ProviderSigned(c) /\ pc[c] = "closed"
        /\ resp[c].status = 401

(***************************************************************************)
(* C3.  As claimed: a validly signed request whose From is missing or      *)
(* blank is answered with a 400-class response, and no outside call is     *)
(* made for it.                                                            *)
(***************************************************************************)
C3_MissingFromAnswered400 ==
    \A c \in Calls :
        (ProviderSigned(c) /\ strip(request[c].form.From) = <<>> /\ pc[c] = "closed") =>
            /\ resp[c].status \in 400..499
            /\ effects[c] = NoEffects

(***************************************************************************)
(* C4.  A call moves Received, Validated, Acknowledged, Processing,        *)
(* Delivered and leaves this path only to Rejected (from Received, when    *)
(* the signature does not validate) or to Failed (from Processing);        *)
(* Rejected, Failed and Delivered are terminal; a Delivered call has       *)
(* finished its media loop and its one agent invocation returned a reply.  *)
(***************************************************************************)
C4_Edges ==
    { <<"Idle", "Received">>, <<"Received", "Validated">>, <<"Received", "Rejected">>,
      <<"Validated", "Acknowledged">>, <<"Acknowledged", "Processing">>,
      <<"Processing", "Delivered">>, <<"Processing", "Failed">> }

C4_StateMachine ==
    /\ [][\A c \in Calls :
            \/ CallState(c)' = CallState(c)
            \/ <<CallState(c), CallState(c)'>> \in C4_Edges]_vars
    /\ [](\A c \in Calls :
            /\ CallState(c) = "Rejected" => ~ProviderSigned(c)
            /\ CallState(c) \in {"Validated", "Acknowledged", "Processing",
                                 "Delivered", "Failed"} => ProviderSigned(c)
            /\ CallState(c) = "Delivered" =>
                  /\ bg[c].i >= int(request[c].form.NumMedia)
                  /\ Len(effects[c].invoke) = 1
                  /\ bg[c].replied)

C4_Witness ==
    \E c, d \in Calls :
        /\ CallState(c) = "Delivered"
        /\ CallState(d) = "Rejected"

(***************************************************************************)
(* C5.  For one call there is at most one agent invocation and at most one *)
(* outbound send, and every attachment is fetched (and transcribed) at     *)
(* most once, also after a failure.                                        *)
(***************************************************************************)
C5_AtMostOnce ==
    \A c \in Calls :
        /\ Len(effects[c].invoke) <= 1
        /\ Len(effects[c].send) <= 1
        /\ \A i \in 0..(MaxMedia + 1) : FetchCount(c, i) <= 1
        /\ Len(effects[c].transcribe) <= Len(effects[c].fetch)

\* A download failed, the send failed, and the task has ended.
C5_Witness ==
    \E c \in Calls :
        /\ bg[c].pc = "failed" /\ bg[c].error = "TwilioRestException"
        /\ Len(effects[c].fetch) = 2 /\ bg[c].images = <<>> /\ bg[c].audio_transcripts = <<AudioFailed>>
        /\ Len(effects[c].send) = 1 /\ ~effects[c].send[1].ok

(***************************************************************************)
(* C6.  An error of the background phase stays in the task: when the task  *)
(* of a call has failed, no exception has left it, the response of the     *)
(* call is still the acknowledgment, the failed task does not hold the     *)
(* event loop, and every other call that has a step left can take it       *)
(* (when no third call holds the event loop).                              *)
(***************************************************************************)
C6_BackgroundErrorsContained ==
    \A c \in Calls :
        bg[c].pc = "failed" =>
            /\ ~escaped[c]
            /\ resp[c] = AckResponse
            /\ loop # c
            /\ \A d \in Calls \ {c} : (Pending(d) /\ loop \in {0, d}) => CanStep(d)

\* One call failed in the agent invocation, another was delivered.
C6_Witness ==
    \E c, d \in Calls :
        /\ bg[c].pc = "failed" /\ bg[c].error \in InvokeErrors
        /\ bg[d].pc = "done" /\ resp[d] = AckResponse

C8_TextOnlyCase(c) ==
    /\ ProviderSigned(c)
    /\ strip(request[c].form.From) # <<>>
    /\ request[c].form.NumMedia = "0"
    /\ request[c].form.Body # <<>>
    /\ PastInvoke(c)

C8_TextIsBody ==
    \A c \in Calls :
        C8_TextOnlyCase(c) =>
            /\ Len(effects[c].invoke) = 1
            /\ effects[c].invoke[1].content = <<TextBlock(request[c].form.Body)>>
            /\ effects[c].invoke[1].thread_id =
                  uuid5("NAMESPACE_DNS", strip(request[c].form.From))

(***************************************************************************)
(* C8, amended.  A validly signed webhook with a non-blank From, NumMedia  *)
(* = 0 and a Body that is not blank leads to exactly one agent invocation  *)
(* whose content is one text block holding the Body with its surrounding   *)
(* whitespace removed, and no image block, on the thread derived from the  *)
(* trimmed From.                                                           *)
(***************************************************************************)
C8_TextIsTrimmedBody ==
    \A c \in Calls :
        (C8_TextOnlyCase(c) /\ strip(request[c].form.Body) # <<>>) =>
            /\ Len(effects[c].invoke) = 1
            /\ effects[c].invoke[1].content = <<TextBlock(strip(request[c].form.Body))>>
            /\ effects[c].invoke[1].thread_id =
                  uuid5("NAMESPACE_DNS", strip(request[c].form.From))

C8_Witness ==
    \E c \in Calls :
        /\ C8_TextOnlyCase(c)
        /\ bg[c].pc = "done"
        /\ request[c].form.Body # strip(request[c].form.Body)
        /\ request[c].form.From # strip(request[c].form.From)

(***************************************************************************)
(* C9.  As claimed: when a validly signed webhook carries k >= 1 image     *)
(* attachments that all download, the agent runtime receives one user      *)
(* message whose blocks are the text block (when the text is not empty)    *)
(* followed by k image blocks in attachment order.                         *)
(***************************************************************************)
C9_ImageBlock(image) == [type |-> "image_url", image_url |-> [url |-> image.data_uri]]

C9_AllImagesCase(c) ==
    /\ ProviderSigned(c)
    /\ strip(request[c].form.From) # <<>>
    /\ Len(request[c].form.Media) >= 1
    /\ \A k \in 1..Len(request[c].form.Media) : IsImageItem(request[c].form.Media[k])
    /\ Len(bg[c].images) = Len(request[c].form.Media)
    /\ PastInvoke(c)

C9_ImagesReachAgent ==
    \A c \in Calls :
        C9_AllImagesCase(c) =>
            /\ Len(effects[c].invoke) = 1
            /\ effects[c].invoke[1].content =
                  (IF bg[c].content # <<>> THEN <<TextBlock(bg[c].content)>> ELSE <<>>)
                     \o [k \in 1..Len(bg[c].images) |-> C9_ImageBlock(bg[c].images[k])]

(***************************************************************************)
(* C10.  As claimed: every outbound send of a call goes to the call's From *)
(* address with the call's To address as the from identity, each carrying  *)
(* the whatsapp: prefix (added when absent, kept when present).            *)
(***************************************************************************)
C10_Prefixed(address) ==
    IF startswith(address, WhatsAppPrefix) THEN address ELSE WhatsAppPrefix \o address

\* An address that carries the prefix nowhere, or once and at its start.
C10_WellFormed(address) ==
    \/ PrefixCount(address) = 0
    \/ PrefixCount(address) = 1 /\ startswith(address, WhatsAppPrefix)

C10_SentFromCallsTo ==
    \A c \in Calls : \A k \in 1..Len(effects[c].send) :
        /\ effects[c].send[k].to = C10_Prefixed(strip(request[c].form.From))
        /\ effects[c].send[k].from_ = C10_Prefixed(strip(request[c].form.To))

(***************************************************************************)
(* C10, amended.  Every outbound send of a call goes to the call's trimmed *)
(* From address; its from identity is the call's trimmed To address when   *)
(* that is not empty, and the configured TWILIO_WHATSAPP_NUMBER otherwise. *)
(* Both carry the whatsapp: prefix at their start: added when absent, kept *)
(* when present, so exactly once for an address that did not hold it       *)
(* elsewhere.                                                              *)
(***************************************************************************)
C10_Identity(c) ==
    IF strip(request[c].form.To) # <<>>
    THEN strip(request[c].form.To)
    ELSE config.TWILIO_WHATSAPP_NUMBER

C10_SymmetricReply ==
    \A c \in Calls : \A k \in 1..Len(effects[c].send) :
        LET m == effects[c].send[k]
            to == strip(request[c].form.From)
            from == C10_Identity(c)
        IN  /\ m.to = C10_Prefixed(to)
            /\ m.from_ = C10_Prefixed(from)
            /\ startswith(m.to, WhatsAppPrefix) /\ startswith(m.from_, WhatsAppPrefix)
            /\ C10_WellFormed(to) => PrefixCount(m.to) = 1
            /\ C10_WellFormed(from) => PrefixCount(m.from_) = 1

\* A reply sent from the configured number to a sender whose From held the prefix.
C10_Witness ==
    \E c \in Calls :
        /\ bg[c].pc = "done"
        /\ strip(request[c].form.To) = <<>>
        /\ startswith(strip(request[c].form.From), WhatsAppPrefix)
        /\ effects[c].send[1].from_ = WhatsAppPrefix \o config.TWILIO_WHATSAPP_NUMBER

(***************************************************************************)
(* C11.  In every interleaving of calls, the task of a call works on the   *)
(* sender, the recipient and the form captured for that call: its agent    *)
(* invocation runs on the thread of its own sender, its send carries the   *)
(* reply its own invocation returned and goes to its own sender and to no  *)
(* other call's sender; and a step of one call (a failure included)        *)
(* changes nothing of any other call nor the configuration.                *)
(***************************************************************************)
C11_OwnData(c) ==
    /\ bg[c].pc # "none" => bg[c].sender = strip(request[c].form.From)
    /\ bg[c].pc \in {"media", "stream", "send", "done"} =>
           bg[c].to_number = strip(request[c].form.To)
    /\ \A k \in 1..Len(effects[c].invoke) :
           effects[c].invoke[k].thread_id =
              uuid5("NAMESPACE_DNS", strip(request[c].form.From))
    /\ \A k \in 1..Len(effects[c].send) :
           /\ bg[c].replied
           /\ effects[c].send[k].body = bg[c].reply_text
           /\ effects[c].send[k].to = C10_Prefixed(strip(request[c].form.From))
           /\ \A d \in Calls :
                 strip(request[d].form.From) # strip(request[c].form.From) =>
                    effects[c].send[k].to # C10_Prefixed(strip(request[d].form.From))

C11_CallIsolation ==
    /\ [](\A c \in Calls : C11_OwnData(c))
    /\ [][/\ config' = config
          /\ \A c, d \in Calls :
                (c # d /\ CallVars(c)' # CallVars(c)) => CallVars(d)' = CallVars(d)]_vars

\* Two calls of different senders got different replies; one was delivered,
\* the send of the other failed.
C11_Witness ==
    \E c, d \in Calls :
        /\ bg[c].sender # bg[d].sender
        /\ bg[c].pc = "done" /\ bg[d].pc = "failed" /\ bg[d].error = "TwilioRestException"
        /\ bg[c].reply_text # bg[d].reply_text
        /\ Len(effects[c].send) = 1 /\ Len(effects[d].send) = 1

(***************************************************************************)
(* C12.  Two calls of the same sender are not ordered by the gateway: each *)
(* can take its steps while the other is in progress (whenever the event   *)
(* loop is free or its own).  Both open their run                          *)
(* on the same thread id, with multitask strategy "interrupt" and          *)
(* if-not-exists "create", and with a runtime that keeps the interrupt     *)
(* contract at most one of their runs is active at any time.               *)
(***************************************************************************)
C12_InProgress(c) == bg[c].pc \in {"queued", "process", "media", "stream", "send"}

C12_SameSender(c, d) ==
    /\ c # d
    /\ bg[c].pc # "none" /\ bg[d].pc # "none"
    /\ bg[c].sender = bg[d].sender

C12_InterruptOnSenderThread ==
    \A c, d \in Calls :
        C12_SameSender(c, d) =>
            /\ (C12_InProgress(c) /\ Pending(d) /\ loop \in {0, d}) => CanStep(d)
            /\ \A k \in 1..Len(effects[c].invoke) :
                  /\ effects[c].invoke[k].multitask_strategy = "interrupt"
                  /\ effects[c].invoke[k].if_not_exists = "create"
                  /\ \A j \in 1..Len(effects[d].invoke) :
                        effects[d].invoke[j].thread_id = effects[c].invoke[k].thread_id
            /\ ~(runs[c] = "active" /\ runs[d] = "active")

\* Two calls of one sender are both consuming their stream; the run of the
\* first was interrupted when the second opened its run.
C12_Witness ==
    \E c, d \in Calls :
        /\ C12_SameSender(c, d)
        /\ bg[c].pc = "stream" /\ bg[d].pc = "stream"
        /\ runs[c] = "interrupted" /\ runs[d] = "active"

(***************************************************************************)
(* C13.  The thread id of an agent invocation is a function of the sender  *)
(* address (the trimmed From that the task holds) alone: two invocations   *)
(* use the same thread id exactly when their sender addresses are equal,   *)
(* whatever their text, their attachments and the calls made before.       *)
(***************************************************************************)
C13_ThreadIsFunctionOfSender ==
    \A c, d \in Calls :
        \A k \in 1..Len(effects[c].invoke) : \A j \in 1..Len(effects[d].invoke) :
            (effects[c].invoke[k].thread_id = effects[d].invoke[j].thread_id)
                <=> (bg[c].sender = bg[d].sender)

\* A call was delivered; a later call of the same sender, with another
\* From text, another message and an attachment, runs on the same thread.
C13_Witness ==
    \E c, d \in Calls :
        /\ c # d /\ bg[d].pc = "done" /\ bg[c].pc = "stream"
        /\ bg[c].sender = bg[d].sender
        /\ request[c].form.From # request[d].form.From
        /\ request[c].form.Media # request[d].form.Media
        /\ effects[c].invoke[1].content # effects[d].invoke[1].content
        /\ effects[c].invoke[1].thread_id = effects[d].invoke[1].thread_id

(***************************************************************************)
(* C14.  As claimed: the middleware lets a request through exactly when    *)
(* its signature header is the signature, under the shared secret, of the  *)
(* URL and the form fields of the request; a request whose form fields or  *)
(* URL were altered after signing is rejected with 401, and an unmodified, *)
(* correctly signed request is let through.                                *)
(***************************************************************************)
\* The request is what the holder of the shared secret signed.
C14_Unmodified(c) ==
    /\ request[c].sig.key = TWILIO_AUTH_TOKEN
    /\ request[c].sig.url = request[c].url
    /\ request[c].body = MkBody(request[c].sig.params, <<>>)

C14_LetThrough(c) == pc[c] \in {"route", "scheduled"} \/ resp[c] = AckResponse

C14_LetThroughIffUnmodified ==
    \A c \in Calls :
        pc[c] \notin {"idle", "dispatch"} =>
            /\ C14_LetThrough(c) <=> C14_Unmodified(c)
            /\ ~C14_Unmodified(c) => resp[c] = InvalidSignatureResponse

(***************************************************************************)
(* C15.  As claimed: once the middleware has read the body and accepted the *)
(* signature, the handler reads the same body, the receive channel still   *)
(* delivers it, and the form the handler obtains is the form content that  *)
(* was validated.                                                          *)
(***************************************************************************)
C15_HandlerReadsValidatedContent ==
    \A c \in Calls :
        bg[c].pc # "none" =>
            /\ bg[c].body = request[c].body
            /\ request[c].receive = request[c].body
            /\ bg[c].form = flat_form_dict(request[c].body)

(***************************************************************************)
(* C16.  As claimed: when the audio attachments of a turn yield the        *)
(* transcripts t1..tn, n >= 1, the normalized text is t1..tn in attachment *)
(* order joined by a blank line, followed by "\n\nText message: " and the  *)
(* original text (the Body) exactly when the original text is not empty.   *)
(***************************************************************************)
C16_HasText(r) == r.text # <<>>

\* What the audio attachments of call c yielded, without the empty results.
C16_Yielded(c) == SelectSeq(effects[c].transcripts, C16_HasText)

C16_Case(c) ==
    /\ ProviderSigned(c)
    /\ PastInvoke(c)
    /\ Len(C16_Yielded(c)) >= 1

C16_Transcripts(c) ==
    Join([k \in 1..Len(C16_Yielded(c)) |-> C16_Yielded(c)[k].text], <<"\n\n">>)

C16_InOrder(c) ==
    \A k, j \in 1..Len(C16_Yielded(c)) :
        k < j => C16_Yielded(c)[k].i < C16_Yielded(c)[j].i

C16_TranscriptsThenBody ==
    \A c \in Calls :
        C16_Case(c) =>
            /\ C16_InOrder(c)
            /\ bg[c].content =
                  C16_Transcripts(c)
                     \o (IF request[c].form.Body # <<>>
                         THEN <<"\n\n", "Text message: ">> \o request[c].form.Body
                         ELSE <<>>)

(***************************************************************************)
(* C16, amended.  When the audio attachments of a turn yield the           *)
(* transcripts t1..tn, n >= 1, the normalized text is t1..tn in attachment *)
(* order joined by a blank line, followed by "\n\nText message: " and the  *)
(* Body with its surrounding whitespace removed, exactly when that trimmed *)
(* Body is not empty.                                                      *)
(***************************************************************************)
C16_TranscriptsThenTrimmedBody ==
    \A c \in Calls :
        C16_Case(c) =>
            /\ C16_InOrder(c)
            /\ bg[c].content =
                  C16_Transcripts(c)
                     \o (IF strip(request[c].form.Body) # <<>>
                         THEN <<"\n\n", "Text message: ">> \o strip(request[c].form.Body)
                         ELSE <<>>)

\* Two voice notes, the first transcribed and the second failed, with a text
\* that has whitespace around it.
C16_Witness ==
    \E c \in Calls :
        /\ C16_Case(c)
        /\ Len(effects[c].invoke) = 1
        /\ bg[c].content =
              <<"transcript-of", MediaUrlOf(0), "\n\n", "[Audio transcription failed]",
                "\n\n", "Text message: ", "a", "b">>
        /\ request[c].form.Body = <<" ", "a", "b", " ">>

(***************************************************************************)
(* C17.  As claimed: for a turn with no media item and the text T (the     *)
(* Body), the normalized text is exactly T, the image list is empty, and   *)
(* no fetch and no transcription call is made.                             *)
(***************************************************************************)
C17_Case(c) ==
    /\ ProviderSigned(c)
    /\ int(request[c].form.NumMedia) = 0
    /\ PastInvoke(c)

C17_TextUnchanged ==
    \A c \in Calls :
        C17_Case(c) =>
            /\ bg[c].content = request[c].form.Body
            /\ bg[c].images = <<>>
            /\ effects[c].fetch = <<>> /\ effects[c].transcribe = <<>>

(***************************************************************************)
(* C17, amended.  For a turn with no media item and the text T, the        *)
(* normalized text is exactly T with its surrounding whitespace removed,   *)
(* the image list is empty, and no fetch and no transcription call is      *)
(* made.                                                                   *)
(***************************************************************************)
C17_TextTrimmed ==
    \A c \in Calls :
        C17_Case(c) =>
            /\ bg[c].content = strip(request[c].form.Body)
            /\ bg[c].images = <<>>
            /\ effects[c].fetch = <<>> /\ effects[c].transcribe = <<>>
            /\ effects[c].transcripts = <<>>

C17_Witness ==
    \E c \in Calls :
        /\ C17_Case(c)
        /\ request[c].form.Body = <<" ", "a", "b", " ">>
        /\ bg[c].content = <<"a", "b">>
        /\ bg[c].pc = "done"

(***************************************************************************)
(* C18.  As claimed: an audio attachment whose download or transcription   *)
(* raises contributes exactly the sentinel as its transcript, at its own   *)
(* position among the transcripts; the turn goes on: every attachment is   *)
(* processed and the agent is invoked.                                     *)
(***************************************************************************)
C18_AudioIndexes(c) ==
    {i \in 0..(Len(request[c].form.Media) - 1) : IsAudioItem(MediaItem(request[c].form, i))}

C18_Case(c) ==
    /\ ProviderSigned(c)
    /\ PastInvoke(c)
    /\ \E k \in 1..Len(effects[c].transcripts) : effects[c].transcripts[k].raised

C18_SentinelAndTurnGoesOn ==
    \A c \in Calls :
        C18_Case(c) =>
            /\ \A k \in 1..Len(effects[c].transcripts) :
                  effects[c].transcripts[k].raised =>
                     effects[c].transcripts[k].text = AudioFailed
            /\ bg[c].audio_transcripts =
                  [k \in 1..Len(C16_Yielded(c)) |-> C16_Yielded(c)[k].text]
            /\ C16_InOrder(c)
            /\ {effects[c].transcripts[k].i : k \in 1..Len(effects[c].transcripts)}
                  = C18_AudioIndexes(c)
            /\ bg[c].i = int(request[c].form.NumMedia)
            /\ Len(effects[c].invoke) = 1

(***************************************************************************)
(* C19.  The image references of the normalized turn are, in attachment    *)
(* order, those of the image attachments that were downloaded: as many as  *)
(* were downloaded, each a data URI that is "data:", the declared content  *)
(* type, ";base64," and the base64 encoding of the downloaded bytes.  One  *)
(* image item that downloads gives exactly one such reference.             *)
(***************************************************************************)
C19_IsImageIndex(c, i) == IsImageItem(MediaItem(request[c].form, i))

\* The indexes of the image attachments of call c whose download succeeded.
C19_Downloaded(c) ==
    LET F == effects[c].fetched
        keep == {k \in 1..Len(F) : C19_IsImageIndex(c, F[k])}
    IN  [n \in 1..Cardinality(keep) |->
            F[CHOOSE k \in keep : Cardinality({j \in keep : j <= k}) = n]]

C19_OneReferencePerDownloadedImage ==
    \A c \in Calls :
        (ProviderSigned(c) /\ PastInvoke(c)) =>
            /\ Len(bg[c].images) = Len(C19_Downloaded(c))
            /\ \A k \in 1..Len(bg[c].images) :
                  LET item == MediaItem(request[c].form, C19_Downloaded(c)[k])
                      uri  == bg[c].images[k].data_uri
                  IN  /\ uri # <<>>
                      /\ startswith(uri, <<"data:">> \o item.ctype)
                      /\ uri = <<"data:">> \o item.ctype \o <<";base64,">>
                                  \o b64encode(MediaBytes(item.url))
            /\ \A k, j \in 1..Len(C19_Downloaded(c)) :
                  k < j => C19_Downloaded(c)[k] < C19_Downloaded(c)[j]

\* One image item, declared IMAGE/PNG, that downloaded.
C19_Witness ==
    \E c \in Calls :
        /\ ProviderSigned(c) /\ PastInvoke(c)
        /\ Len(request[c].form.Media) = 1
        /\ effects[c].fetched = <<0>>
        /\ Len(bg[c].images) = 1
        /\ bg[c].images[1].data_uri =
              <<"data:", "IMAGE/", "PNG", ";base64,", "b64", "bytes-of", MediaUrlOf(0)>>

(***************************************************************************)
(* C20.  When the stream of the agent runtime yields n >= 1 values and     *)
(* ends, what invoke returns is the content of the last message of the     *)
(* last value, whatever the values before it: it returns that content      *)
(* whenever the last value has a message, and returns nothing else.        *)
(***************************************************************************)
C20_Completed(st) == ~st.raises /\ Len(st.chunks) >= 1

C20_LastValue(st) == st.chunks[Len(st.chunks)]

C20_ReplyIsLastMessageOfLastValue ==
    \A c \in Calls : \A k \in 1..Len(effects[c].streamed) :
        LET st == effects[c].streamed[k]
        IN  C20_Completed(st) =>
               LET last == C20_LastValue(st)
               IN  IF last.has_messages /\ last.messages # <<>>
                   THEN /\ bg[c].replied
                        /\ bg[c].reply_text = last.messages[Len(last.messages)].content
                   ELSE /\ ~bg[c].replied
                        /\ bg[c].pc = "failed" /\ bg[c].error \in InvokeErrors

\* A stream of two values whose last messages differ: the reply is the last
\* message of the second.
C20_Witness ==
    \E c \in Calls :
        /\ Len(effects[c].streamed) = 1
        /\ Len(effects[c].streamed[1].chunks) = 2
        /\ effects[c].streamed[1].chunks[1].messages = <<Message(<<"r1">>)>>
        /\ effects[c].streamed[1].chunks[2].messages = <<Message(<<"r1">>), Message(<<"r2">>)>>
        /\ bg[c].pc = "done" /\ bg[c].reply_text = <<"r2">>

(***************************************************************************)
(* C21.  As claimed: invoke fails with an error and returns no reply when  *)
(* the transport fails, when the stream yields no value, when the final    *)
(* value carries no messages, or when the final message is empty; a reply  *)
(* that invoke returned is never empty, and nothing is sent after a        *)
(* failure.                                                                *)
(***************************************************************************)
\* The stream gives no reply: it broke, yielded nothing, or its final value
\* has no message or an empty last message.
C21_NoReply(st) ==
    \/ st.raises
    \/ st.chunks = <<>>
    \/ LET last == st.chunks[Len(st.chunks)]
       IN  \/ ~last.has_messages
           \/ last.messages = <<>>
           \/ last.messages[Len(last.messages)].content = <<>>

C21_InvokeFailsWithoutReply ==
    \A c \in Calls :
        /\ \A k \in 1..Len(effects[c].streamed) :
              C21_NoReply(effects[c].streamed[k]) =>
                 /\ bg[c].pc = "failed" /\ bg[c].error \in InvokeErrors
                 /\ ~bg[c].replied
                 /\ effects[c].send = <<>>
        /\ bg[c].replied => bg[c].reply_text # <<>>

(***************************************************************************)
(* C22.  As claimed: when a mandatory credential (the provider's account   *)
(* id or secret, the transcription backend key) is absent, the gateway     *)
(* fails at startup: no webhook is received, acknowledged or processed,    *)
(* and no call finds the credential missing while it is processed.         *)
(***************************************************************************)
C22_CredentialMissing ==
    \/ config.TWILIO_ACCOUNT_SID = ""
    \/ config.TWILIO_AUTH_TOKEN = ""
    \/ config.OPENAI_API_KEY = ""

C22_MissingCredentialFailsAtStartup ==
    C22_CredentialMissing =>
        \A c \in Calls :
            /\ pc[c] = "idle" /\ resp[c] = NoResponse
            /\ bg[c] = NoTask /\ effects[c] = NoEffects

(***************************************************************************)
(* C23.  As claimed: the form values that the handler and the background   *)
(* task act on are the values the middleware put into the signature check, *)
(* also for a body that holds a field name more than once: the sender, the *)
(* recipient, the text and the media references that are used were covered  *)
(* by the validated signature.                                             *)
(***************************************************************************)
\* The fields the middleware gave to the signature check for call c.
C23_Validated(c) == flat_form_dict(request[c].body)

C23_ActsOnValidatedValues ==
    \A c \in Calls :
        bg[c].pc # "none" =>
            /\ bg[c].sender = strip(C23_Validated(c).From)
            /\ bg[c].pc \notin {"queued", "process"} =>
                  bg[c].to_number = strip(C23_Validated(c).To)
            /\ bg[c].form.Body = C23_Validated(c).Body
            /\ bg[c].form.NumMedia = C23_Validated(c).NumMedia
            /\ bg[c].form.Media = C23_Validated(c).Media
            /\ \A k \in 1..Len(effects[c].invoke) :
                  effects[c].invoke[k].thread_id =
                     uuid5("NAMESPACE_DNS", strip(C23_Validated(c).From))
            /\ \A k \in 1..Len(effects[c].send) :
                  effects[c].send[k].to = C10_Prefixed(strip(C23_Validated(c).From))

(***************************************************************************)
(* C24.  As claimed: while the task of one call is inside a media download *)
(* or an outbound send, another call that has arrived can still be         *)
(* validated and acknowledged: its next step towards the acknowledgment    *)
(* can be taken without waiting for that network call.                     *)
(***************************************************************************)
\* The task of call c is inside a download or a send.
C24_InsideNetworkCall(c) ==
    /\ loop = c
    /\ bg[c].pc \in {"media", "send"}

\* Call d has arrived and is not yet acknowledged or rejected.
C24_AwaitsAck(d) == pc[d] \in {"dispatch", "route", "scheduled"}

C24_AckNeverWaits ==
    \A c, d \in Calls :
        (c # d /\ C24_InsideNetworkCall(c) /\ C24_AwaitsAck(d)) =>
            ENABLED (dispatch(d) \/ add_task(d) \/ whatsapp_reply_twilio(d))

(***************************************************************************)
(* C25.  As claimed: the text delivered to a sender is content the agent   *)
(* produced for that turn: every send carries the content of a message of  *)
(* the agent, and never the sender's own message, also when the stream     *)
(* ended on a value whose last message is still the user's message.        *)
(***************************************************************************)
\* The last message of the last value of the stream that call c consumed.
C25_LastMessage(c) ==
    LET last == C20_LastValue(effects[c].streamed[1])
    IN  last.messages[Len(last.messages)]

C25_ReplyIsAgentContent ==
    \A c \in Calls : \A k \in 1..Len(effects[c].send) :
        /\ Len(effects[c].streamed) = 1
        /\ C25_LastMessage(c).type = "ai"
        /\ effects[c].send[k].body = C25_LastMessage(c).content
        /\ effects[c].send[k].body # bg[c].content

(***************************************************************************)
(* C26.  As claimed: an image attachment whose download fails is left out  *)
(* of the image list and nothing is put in its place; the images that were *)
(* downloaded keep their attachment order, every other attachment of the   *)
(* turn is still processed, and the turn goes on to the agent invocation.  *)
(***************************************************************************)
\* The indexes of the image attachments of call c whose download failed.
C26_FailedImages(c) ==
    {i \in 0..(Len(request[c].form.Media) - 1) :
        /\ C19_IsImageIndex(c, i)
        /\ \E k \in 1..Len(effects[c].fetch) : effects[c].fetch[k] = i
        /\ \A k \in 1..Len(effects[c].fetched) : effects[c].fetched[k] # i}

C26_Case(c) ==
    /\ ProviderSigned(c)
    /\ PastInvoke(c)
    /\ C26_FailedImages(c) # {}

\* The image list holds the downloaded images, in order, and nothing else.
C26_Omitted(c) ==
    /\ Len(bg[c].images) = Len(C19_Downloaded(c))
    /\ \A k \in 1..Len(bg[c].images) :
          /\ C19_Downloaded(c)[k] \notin C26_FailedImages(c)
          /\ bg[c].images[k].url = MediaItem(request[c].form, C19_Downloaded(c)[k]).url
    /\ \A k, j \in 1..Len(C19_Downloaded(c)) :
          k < j => C19_Downloaded(c)[k] < C19_Downloaded(c)[j]

\* Every attachment that is an image or an audio was fetched.
C26_OthersProcessed(c) ==
    /\ bg[c].i = int(request[c].form.NumMedia)
    /\ \A i \in 0..(Len(request[c].form.Media) - 1) :
          (C19_IsImageIndex(c, i) \/ i \in C18_AudioIndexes(c)) => FetchCount(c, i) = 1

C26_FailedImageOmittedAndTurnGoesOn ==
    \A c \in Calls :
        C26_Case(c) =>
            /\ C26_Omitted(c)
            /\ C26_OthersProcessed(c)
            /\ Len(effects[c].invoke) = 1

(***************************************************************************)
(* C27.  An attachment whose content type is neither audio nor image, or   *)
(* whose URL is empty, is never fetched or transcribed; the step of the    *)
(* media loop over it changes nothing but the index of the loop (no text,  *)
(* no image, no error), so that the normalized text and the image list are *)
(* those of the other attachments; the later attachments are processed.    *)
(***************************************************************************)
C27_IsOther(item) ==
    \/ item.url = ""
    \/ ~(is_audio_content_type(item.ctype) \/ is_image_content_type(item.ctype))

\* The indexes of the attachments of call c that are neither audio nor image.
C27_Others(c) ==
    {i \in 0..(Len(request[c].form.Media) - 1) : C27_IsOther(MediaItem(request[c].form, i))}

\* The normalized text, from what the audio attachments yielded and the Body.
C27_TextOfTheOthers(c) ==
    IF C16_Yielded(c) # <<>>
    THEN C16_Transcripts(c)
            \o (IF strip(request[c].form.Body) # <<>>
                THEN <<"\n\n", "Text message: ">> \o strip(request[c].form.Body)
                ELSE <<>>)
    ELSE strip(request[c].form.Body)

C27_NeverFetched(c) ==
    \A i \in C27_Others(c) :
        /\ FetchCount(c, i) = 0
        /\ \A k \in 1..Len(effects[c].fetched) : effects[c].fetched[k] # i
        /\ \A k \in 1..Len(effects[c].transcribe) : effects[c].transcribe[k] # i
        /\ \A k \in 1..Len(effects[c].transcripts) : effects[c].transcripts[k].i # i

C27_AtOther(c) ==
    /\ bg[c].pc = "media"
    /\ bg[c].i \in C27_Others(c)

C27_OtherAttachmentsIgnored ==
    /\ [](\A c \in Calls :
            ProviderSigned(c) =>
               /\ C27_NeverFetched(c)
               /\ PastInvoke(c) =>
                     /\ bg[c].content = C27_TextOfTheOthers(c)
                     /\ C26_Omitted(c)
                     /\ C26_OthersProcessed(c))
    /\ [][\A c \in Calls :
            (C27_AtOther(c) /\ ProviderSigned(c) /\ CallVars(c)' # CallVars(c)) =>
                /\ bg' = [bg EXCEPT ![c].i = @ + 1]
                /\ UNCHANGED <<effects, escaped, resp, loop>>]_vars

\* A video, then a voice note that was transcribed; the reply was delivered.
C27_Witness ==
    \E c \in Calls :
        /\ ProviderSigned(c) /\ bg[c].pc = "done"
        /\ Len(request[c].form.Media) = 2
        /\ request[c].form.Media[1].ctype = VideoMp4
        /\ C27_Others(c) = {0}
        /\ effects[c].fetch = <<1>>
        /\ bg[c].content =
              <<"transcript-of", MediaUrlOf(1), "\n\n", "Text message: ", "a">>

(***************************************************************************)
(* C28.  Under the fairness of SpecLive (the event loop runs every step    *)
(* that is ready, and every external call returns or raises), every        *)
(* validly signed call that arrived is eventually acknowledged and its     *)
(* task eventually ends Delivered or Failed: again and again, all such     *)
(* calls have ended, and a call that arrived validly signed stays so.  A   *)
(* call in Processing, and a call whose task is scheduled, is such a call, *)
(* so it leaves Processing, and its task runs.                             *)
(***************************************************************************)
C28_ValidCall(c) == Arrived(c) /\ ProviderSigned(c)

C28_Ended(c) ==
    /\ resp[c] = AckResponse
    /\ TaskStarted(c)
    /\ CallState(c) \in {"Delivered", "Failed"}

C28_EventuallyEnded ==
    /\ []<>(\A c \in Calls : C28_ValidCall(c) => C28_Ended(c))
    /\ [][\A c \in Calls : C28_ValidCall(c) => C28_ValidCall(c)']_vars
    /\ [](\A c \in Calls :
            (CallState(c) = "Processing" \/ bg[c].pc = "queued") => C28_ValidCall(c))

\* Every call has ended: one Delivered after a download, another Failed.
C28_Witness ==
    /\ \A c \in Calls : C28_ValidCall(c) /\ C28_Ended(c)
    /\ \E c, d \in Calls :
          /\ CallState(c) = "Delivered" /\ effects[c].fetched # <<>>
          /\ CallState(d) = "Failed"

=============================================================================
